---- MODULE Spec2Model ----
(***************************************************************************)
(* Model of bitmex_websocket.symbol_data.SymbolData: the authenticated     *)
(* REST dispatcher _curl_bitmex with its retry / recovery policy, the      *)
(* duplicate-clOrdID reconciliation, and the public operations that call   *)
(* it.  The exchange is the environment: it answers every request with    *)
(* one of the outcomes the dispatcher distinguishes.                       *)
(*                                                                         *)
(* Python values are modelled as records: a dict is a record, None is the  *)
(* record None, a list is [list |-> <<...>>].  A string that the code      *)
(* slices or tests with startswith is a sequence of characters.            *)
(*                                                                         *)
(* A retry in the source is a tail call `return self._curl_bitmex(...)`:   *)
(* the model replaces the frame of the call by the frame of the re-entry.  *)
(* The interpreter's recursion limit is not part of the source and is not  *)
(* modelled; MaxSends bounds the number of network sends of one call.      *)
(*                                                                         *)
(* The class reads self.base_url and self.data but never assigns them, and *)
(* __init__ ends in connect_websocket(symbol=symbol), which the method's   *)
(* signature does not accept.  The model starts from a client object that  *)
(* exists with base_url = BASE_URL of the settings and a filled data       *)
(* store, as the operations presuppose.  SpecCtor starts before the        *)
(* constructor call instead, SpecConc has two callers on one client, and   *)
(* SpecLive leaves the number of sends of a call unbounded.                *)
(*                                                                         *)
(* exit(1) raises SystemExit; the callers run in the main thread, where it *)
(* ends the process.                                                       *)
(***************************************************************************)
EXTENDS Integers, Sequences, FiniteSets, TLC

VARIABLES
    apiKey,         \* self.apiKey
    apiSecret,      \* self.apiSecret
    token,          \* self.token
    orderIDPrefix,  \* self.orderIDPrefix
    symbol,         \* self.symbol
    ctor,           \* what __init__ was given, did and raised
    data,           \* self.data, the store the streaming connection fills
    exchange,       \* the orders that exist on the exchange
    alive,          \* FALSE once exit(1) has terminated the process
    threads,        \* the callers that use the client
    window,         \* the part of a call's trace that is kept: "call",
                    \* or "attempt" (the last attempt only)
    calls,          \* number of operations invoked so far
    pc,             \* per caller: "idle", "ready", "sleeping", "done"
    op,             \* per caller: the operation invoked and its arguments
    stack,          \* per caller: the active frames of _curl_bitmex
    trace,          \* per caller: sends, responses, sleeps and log entries
    outcome         \* per caller: what the operation handed to its caller

vars == <<apiKey, apiSecret, token, orderIDPrefix, symbol, ctor, data,
          exchange, alive, threads, window, calls, pc, op, stack, trace,
          outcome>>

config == <<apiKey, apiSecret, token, orderIDPrefix, symbol, ctor>>

----------------------------------------------------------------------------
(* Bounds *)

MaxSends == 3
MaxCalls == 1

Threads == {1, 2}

----------------------------------------------------------------------------
(* Values *)

None == [none |-> TRUE]

BASE_URL == <<"https://www.bitmex.com/api/v1/">>

Quantities == {1}
Prices == {-1, 0}
Suffixes == {<<"A">>, <<"B">>}

\* The default of the timeout parameter of _curl_bitmex.
DefaultTimeout == 3

StartsWith(s, p) == Len(p) <= Len(s) /\ SubSeq(s, 1, Len(p)) = p

\* str() of a value that is a string already.
Str(s) == s

HasKey(d, k) == d # None /\ k \in DOMAIN d

\* Truth value of `postdict` in `if postdict` / `if not verb`.
Truthy(d) == d # None

RECURSIVE SetToSeq(_)
SetToSeq(S) ==
    IF S = {} THEN <<>>
    ELSE LET x == CHOOSE y \in S : TRUE IN <<x>> \o SetToSeq(S \ {x})

SelectEvents(s, e) == SelectSeq(s, LAMBDA x : x.e = e)

Abs(n) == IF n < 0 THEN -n ELSE n

\* json.dumps: an injective encoding of its argument.
JsonDumps(d) == [json |-> d]

\* A credential or a verb that is None or '' (the code tests only `not x`).
Empty == ""

----------------------------------------------------------------------------
(* The dispatcher's frame and the request it puts on the wire *)

\* The parameters of one activation of _curl_bitmex, after the verb default.
CurlFrame(api, query, postdict, timeout, verb, rethrow_errors) ==
    [api |-> api,
     query |-> query,
     postdict |-> postdict,
     timeout |-> timeout,
     verb |-> IF verb = Empty
              THEN (IF Truthy(postdict) THEN "POST" ELSE "GET")
              ELSE verb,
     rethrow_errors |-> rethrow_errors]

\* requests.Request(verb, url, json=postdict, params=query), sent with timeout.
Request(f) ==
    [endpoint |-> BASE_URL \o <<f.api>>,
     verb |-> f.verb,
     query |-> f.query,
     body |-> f.postdict,
     timeout |-> f.timeout]

\* The auth object attached to the request.
Auth == IF apiKey # Empty THEN "APIKeyAuthWithExpires" ELSE "AccessTokenAuth"

\* A re-entry that draws the other identifier for the order it resubmits.
RetryFrameNewId(f) ==
    CurlFrame(f.api, f.query,
              IF HasKey(f.postdict, "clOrdID")
              THEN [f.postdict EXCEPT !.clOrdID =
                        SubSeq(@, 1, Len(@) - 1)
                        \o (IF @[Len(@)] = "A" THEN <<"B">> ELSE <<"A">>)]
              ELSE f.postdict,
              f.timeout, f.verb, FALSE)

\* A re-entry that leaves the timeout to its default.
RetryFrameDefaultTimeout(f) ==
    CurlFrame(f.api, f.query, f.postdict, DefaultTimeout, f.verb, FALSE)

\* The re-entry `self._curl_bitmex(api, query, postdict, timeout, verb)`.
RetryFrame(f) ==
    CurlFrame(f.api, f.query, f.postdict, f.timeout, f.verb, FALSE)

\* The lookup `self._curl_bitmex('/order', query={'filter': ...}, verb='GET')`.
LookupFrame(f) ==
    CurlFrame("/order",
              [filter |-> JsonDumps([clOrdID |-> f.postdict.clOrdID])],
              None, DefaultTimeout, "GET", FALSE)

----------------------------------------------------------------------------
(* The exchange *)

IsCreate(f) == f.verb = "POST" /\ f.api \in {"order", "order/bulk"}

\* The order dicts an order-creating request submits.
Submitted(f) ==
    IF f.api = "order" THEN <<f.postdict>> ELSE f.postdict.orders

SubmittedIds(f) ==
    {Submitted(f)[i].clOrdID : i \in 1..Len(Submitted(f))}

\* The ExchangeOrder the exchange books for a submitted order dict.
ExOrder(p) ==
    LET qty == IF HasKey(p, "orderQty") THEN p.orderQty ELSE p.quantity
    IN  [clOrdID |-> p.clOrdID, symbol |-> p.symbol, orderQty |-> qty,
         price |-> p.price, leavesQty |-> Abs(qty)]

\* A submission carrying an already-seen ClientOrderID is a duplicate.
IsDuplicate(f, ex) ==
    /\ IsCreate(f)
    /\ \/ \E o \in ex : o.clOrdID \in SubmittedIds(f)
       \/ Cardinality(SubmittedIds(f)) < Len(Submitted(f))

\* The effect of a request that reached the exchange.
Land(f, ex) ==
    IF IsCreate(f) /\ ~IsDuplicate(f, ex)
    THEN ex \cup {ExOrder(Submitted(f)[i]) : i \in 1..Len(Submitted(f))}
    ELSE ex

\* response.json() of a 200 answer, ex being the exchange after the request.
Payload(f, ex) ==
    IF IsCreate(f) /\ f.api = "order"
        THEN ExOrder(f.postdict)
    ELSE IF IsCreate(f)
        THEN [list |-> [i \in 1..Len(Submitted(f)) |-> ExOrder(Submitted(f)[i])]]
    ELSE IF f.verb = "GET" /\ HasKey(f.query, "filter")
        THEN LET flt == f.query.filter.json
             IN  IF "clOrdID" \in DOMAIN flt
                 THEN [list |-> SetToSeq({o \in ex : o.clOrdID = flt.clOrdID})]
                 ELSE [list |-> SetToSeq({o \in ex : o.symbol = flt.symbol})]
    ELSE [ok |-> TRUE]

----------------------------------------------------------------------------
(* Outcomes of an operation, as its caller sees them *)

NoOutcome == [kind |-> "none"]
Return(v) == [kind |-> "return", value |-> v]
Raise(err, info) == [kind |-> "raise", error |-> err, info |-> info]
\* exit(1)
Exit == [kind |-> "exit", code |-> 1]

\* What the body of an operation does first: enter _curl_bitmex, or end.
Enter(f) == [go |-> "call", frame |-> f]
End(r) == [go |-> "end", outcome |-> r]

----------------------------------------------------------------------------
(* The public operations *)

Prefixes == {<<"o", "r", "d", "e", "r">>}

\* prefix + base64(uuid4), sfx standing for the encoded uuid.
NewClOrdID(sfx) == orderIDPrefix \o sfx

\* An order placement that also refuses the price zero.
place_order_no_zero(quantity, price, sfx) ==
    IF price <= 0
    THEN End(Raise("Exception", [message |-> "Price must be positive."]))
    ELSE Enter(CurlFrame("order", None,
                         [symbol |-> symbol, orderQty |-> quantity,
                          price |-> price, clOrdID |-> NewClOrdID(sfx)],
                         DefaultTimeout, "POST", FALSE))

place_order(quantity, price, sfx) ==
    IF price < 0
    THEN End(Raise("Exception", [message |-> "Price must be positive."]))
    ELSE Enter(CurlFrame("order", None,
                         [symbol |-> symbol, orderQty |-> quantity,
                          price |-> price, clOrdID |-> NewClOrdID(sfx)],
                         DefaultTimeout, "POST", FALSE))

amend_bulk_orders(orders) ==
    Enter(CurlFrame("order/bulk", None, [orders |-> orders],
                    DefaultTimeout, "PUT", TRUE))

create_bulk_orders(orders, sfxs) ==
    LET tagged == [i \in 1..Len(orders) |->
                      [orderQty |-> orders[i].orderQty,
                       price |-> orders[i].price,
                       clOrdID |-> NewClOrdID(sfxs[i]),
                       symbol |-> symbol]]
    IN  Enter(CurlFrame("order/bulk", None, [orders |-> tagged],
                        DefaultTimeout, "POST", FALSE))

funds ==
    IF Len(data.margin) = 0
    THEN End(Raise("IndexError", [index |-> 0]))
    ELSE End(Return(data.margin[1]))

position(sym) ==
    LET pos == SelectSeq(data.position, LAMBDA p : p.symbol = sym)
    IN  IF Len(pos) = 0
        THEN End(Return([avgCostPrice |-> 0, avgEntryPrice |-> 0,
                         currentQty |-> 0, symbol |-> sym]))
        ELSE End(Return(pos[1]))

\* A filter that forgets the leavesQty test.
open_orders_by_prefix ==
    End(Return([list |-> SelectSeq(data.order, LAMBDA o :
                    StartsWith(Str(o.clOrdID), orderIDPrefix))]))

open_orders ==
    End(Return([list |-> SelectSeq(data.order, LAMBDA o :
                    StartsWith(Str(o.clOrdID), orderIDPrefix)
                    /\ o.leavesQty > 0)]))

http_open_orders ==
    Enter(CurlFrame("order",
                    [filter |-> JsonDumps(("ordStatus.isTerminated" :> FALSE)
                                          @@ ("symbol" :> symbol))],
                    None, DefaultTimeout, "GET", FALSE))

cancel(orderID) ==
    Enter(CurlFrame("order", None, [orderID |-> orderID],
                    DefaultTimeout, "DELETE", FALSE))

withdraw(amount, fee, address) ==
    Enter(CurlFrame("user/requestWithdrawal", None,
                    [amount |-> amount, fee |-> fee, currency |-> "XBt",
                     address |-> address],
                    DefaultTimeout, "POST", FALSE))

\* A decorator that does not check.
authentication_not_required(body) == body

\* The decorator: the wrapped body runs only with an API key.
authentication_required(body) ==
    IF apiKey = Empty
    THEN End(Raise("AuthenticationError",
                   [message |-> "You must be authenticated to use this method"]))
    ELSE body

\* The operation o as a caller invokes it, sfxs being the uuids it draws.
Body(o, sfxs) ==
    CASE o.name = "funds" -> authentication_required(funds)
      [] o.name = "position" -> authentication_required(position(o.symbol))
      [] o.name = "open_orders" -> authentication_required(open_orders)
      [] o.name = "buy" ->
            authentication_required(authentication_required(
                place_order(o.quantity, o.price, sfxs[1])))
      [] o.name = "sell" ->
            authentication_required(authentication_required(
                place_order(-o.quantity, o.price, sfxs[1])))
      [] o.name = "place_order" ->
            authentication_required(place_order(o.quantity, o.price, sfxs[1]))
      [] o.name = "amend_bulk_orders" ->
            authentication_required(amend_bulk_orders(o.orders))
      [] o.name = "create_bulk_orders" ->
            authentication_required(create_bulk_orders(o.orders, sfxs))
      [] o.name = "http_open_orders" ->
            authentication_required(http_open_orders)
      [] o.name = "cancel" -> authentication_required(cancel(o.orderID))
      [] o.name = "withdraw" ->
            authentication_required(withdraw(o.amount, o.fee, o.address))
      [] o.name = "_curl_bitmex" ->
            Enter(CurlFrame(o.api, o.query, o.postdict, o.timeout, o.verb,
                            o.rethrow_errors))

\* An operation that hands on what it fetched, unfiltered.
FinishUnfiltered(o, v) == Return(v)

\* What the operation does with the value _curl_bitmex returned to it.
Finish(o, v) ==
    IF o.name = "http_open_orders"
    THEN Return([list |-> SelectSeq(v.list, LAMBDA x :
                    StartsWith(Str(x.clOrdID), orderIDPrefix))])
    ELSE Return(v)

----------------------------------------------------------------------------
(* The inputs the callers choose *)

AuthOps == {"funds", "position", "buy", "sell", "place_order",
            "amend_bulk_orders", "create_bulk_orders", "open_orders",
            "http_open_orders", "cancel", "withdraw"}

NoOp == [name |-> "none"]

BulkOrders == {<<[orderQty |-> 1, price |-> 0]>>}

\* Calls of the dispatcher made by code outside this class: an order in the
\* exchange's older parameter naming, a cancel and a plain query.
DirectCalls ==
    {[name |-> "_curl_bitmex", api |-> "order", query |-> None,
      postdict |-> [symbol |-> symbol, quantity |-> q, price |-> 0,
                    clOrdID |-> NewClOrdID(<<"A">>)],
      timeout |-> DefaultTimeout, verb |-> Empty, rethrow_errors |-> r] :
        q \in Quantities, r \in BOOLEAN}
    \cup
    {[name |-> "_curl_bitmex", api |-> "order", query |-> None,
      postdict |-> [orderID |-> "X"],
      timeout |-> 7, verb |-> "DELETE", rethrow_errors |-> TRUE],
     [name |-> "_curl_bitmex", api |-> "instrument", query |-> None,
      postdict |-> None,
      timeout |-> 7, verb |-> Empty, rethrow_errors |-> TRUE]}

Ops ==
    {[name |-> "funds"], [name |-> "open_orders"],
     [name |-> "http_open_orders"],
     [name |-> "position", symbol |-> symbol],
     [name |-> "cancel", orderID |-> "X"],
     [name |-> "withdraw", amount |-> 1, fee |-> 0, address |-> "addr"],
     [name |-> "amend_bulk_orders",
      orders |-> <<[orderID |-> "X", price |-> 1]>>]}
    \cup {[name |-> n, quantity |-> q, price |-> p] :
            n \in {"buy", "sell", "place_order"},
            q \in Quantities, p \in Prices}
    \cup {[name |-> "create_bulk_orders", orders |-> os] : os \in BulkOrders}
    \cup DirectCalls

\* Orders booked on the exchange before the session, under an identifier
\* that this session's generator can draw again.
Foreign(prefix) ==
    LET id == prefix \o <<"A">>
    IN  {[clOrdID |-> id, symbol |-> "XBTH17", orderQty |-> 1,
          price |-> 0, leavesQty |-> 1],
         [clOrdID |-> id, symbol |-> "XBTH17", orderQty |-> 2,
          price |-> 0, leavesQty |-> 2],
         [clOrdID |-> id, symbol |-> "XBTH17", orderQty |-> 1,
          price |-> 1, leavesQty |-> 0],
         [clOrdID |-> id, symbol |-> "XBTUSD", orderQty |-> 1,
          price |-> 0, leavesQty |-> 1]}

\* An exchange that holds an open order of another session, and under the
\* client's prefix an order with nothing left to fill and an open order.
Book(prefix) ==
    {[clOrdID |-> <<"x">>, symbol |-> "XBTH17", orderQty |-> 1,
      price |-> 0, leavesQty |-> 1],
     [clOrdID |-> prefix \o <<"A">>, symbol |-> "XBTH17", orderQty |-> 1,
      price |-> 1, leavesQty |-> 0],
     [clOrdID |-> prefix \o <<"B">>, symbol |-> "XBTH17", orderQty |-> 1,
      price |-> 0, leavesQty |-> 1]}

DataStores ==
    {[margin |-> <<[walletBalance |-> 10]>>,
      position |-> <<[symbol |-> "XBTH17", currentQty |-> 1]>>,
      order |-> <<[clOrdID |-> <<"o", "r", "d", "e", "r", "-", "a">>,
                   leavesQty |-> 5],
                  [clOrdID |-> <<"o", "r", "d", "e", "r", "-", "d">>,
                   leavesQty |-> 0],
                  [clOrdID |-> <<"o", "t", "h", "e", "r", "-", "x">>,
                   leavesQty |-> 5]>>]}

Credentials ==
    {[apiKey |-> Empty, apiSecret |-> Empty],
     [apiKey |-> "KEY", apiSecret |-> "SECRET"]}

----------------------------------------------------------------------------
(* The constructor *)

\* The longest orderIDPrefix that __init__ accepts.
MaxPrefixLen == 13

\* The steps of __init__ in the order of the source.
InitSteps == <<"fields", "orderIDPrefix", "session", "headers",
               "connect_websocket">>

NotConstructed == [called |-> FALSE, prefix |-> <<>>, steps |-> <<>>,
                   raised |-> Empty]

\* A constructor that also refuses a prefix of exactly 13 characters.
SymbolData_init_short(sym, key, secret, prefix, overridden) ==
    IF Len(prefix) >= MaxPrefixLen
    THEN [symbol |-> sym, token |-> Empty, apiKey |-> key,
          apiSecret |-> secret, orderIDPrefix |-> <<>>,
          ctor |-> [called |-> TRUE, prefix |-> prefix,
                    steps |-> <<"fields">>, raised |-> "ValueError"]]
    ELSE [symbol |-> sym, token |-> Empty, apiKey |-> key,
          apiSecret |-> secret, orderIDPrefix |-> prefix,
          ctor |-> [called |-> TRUE, prefix |-> prefix,
                    steps |-> InitSteps, raised |-> Empty]]

\* SymbolData(symbol, apiKey=key, apiSecret=secret, orderIDPrefix=prefix):
\* the fields of the object and the record of the construction.  The call
\* connect_websocket(symbol=symbol) passes an argument that the method of
\* this class does not take: it succeeds only where a subclass overrides
\* the method (overridden), and raises TypeError otherwise.
SymbolData_init(sym, key, secret, prefix, overridden) ==
    IF Len(prefix) > MaxPrefixLen
    THEN [symbol |-> sym, token |-> Empty, apiKey |-> key,
          apiSecret |-> secret, orderIDPrefix |-> <<>>,
          ctor |-> [called |-> TRUE, prefix |-> prefix,
                    steps |-> <<"fields">>, raised |-> "ValueError"]]
    ELSE IF ~overridden
    THEN [symbol |-> sym, token |-> Empty, apiKey |-> key,
          apiSecret |-> secret, orderIDPrefix |-> prefix,
          ctor |-> [called |-> TRUE, prefix |-> prefix,
                    steps |-> SubSeq(InitSteps, 1, 4), raised |-> "TypeError"]]
    ELSE [symbol |-> sym, token |-> Empty, apiKey |-> key,
          apiSecret |-> secret, orderIDPrefix |-> prefix,
          ctor |-> [called |-> TRUE, prefix |-> prefix,
                    steps |-> InitSteps, raised |-> Empty]]

\* The client exists: __init__ ran to its end.
Constructed == ctor.called /\ ctor.raised = Empty

----------------------------------------------------------------------------
(* Initial state: the client as constructed, no call in progress *)

InitClient ==
    /\ \E c \in Credentials, p \in Prefixes :
          LET self == SymbolData_init("XBTH17", c.apiKey, c.apiSecret, p, TRUE)
          IN  /\ apiKey = self.apiKey /\ apiSecret = self.apiSecret
              /\ token = self.token /\ orderIDPrefix = self.orderIDPrefix
              /\ symbol = self.symbol /\ ctor = self.ctor
    /\ data \in DataStores
    /\ exchange \in {{}} \cup {{o} : o \in Foreign(orderIDPrefix)}
                      \cup {Book(orderIDPrefix)}
    /\ alive = TRUE
    /\ calls = 0
    /\ pc = [t \in Threads |-> "idle"]
    /\ op = [t \in Threads |-> NoOp]
    /\ stack = [t \in Threads |-> <<>>]
    /\ trace = [t \in Threads |-> <<>>]
    /\ outcome = [t \in Threads |-> NoOutcome]

Init == InitClient /\ threads = {1} /\ window = "call"

----------------------------------------------------------------------------
(* The trace of one call *)

SendEvt(f, depth) ==
    [e |-> "send", depth |-> depth, req |-> Request(f), auth |-> Auth]
\* The answer to the n-th send of a call.
RespEvt(class, depth, n) ==
    [e |-> "resp", class |-> class, depth |-> depth, n |-> n]
SleepEvt == [e |-> "sleep", seconds |-> 1]
\* A log entry: body says that it holds response.text, payload that it
\* holds the outgoing postdict.
Log(level, msg, body, payload) ==
    [e |-> "log", level |-> level, msg |-> msg, body |-> body,
     payload |-> payload]

Top(t) == stack[t][Len(stack[t])]
Depth(t) == Len(stack[t])
Sends(t) == Len(SelectEvents(trace[t], "send"))

\* The part of t's trace that the next attempt is appended to: all of it,
\* or nothing where only the last attempt is kept.
Kept(t) == IF window = "call" THEN trace[t] ELSE <<>>

\* The number of the next send of t's call; where only the last attempt
\* is kept the sends are numbered 1, 2, 1, 2, ...
Attempt(t) ==
    LET resps == SelectEvents(trace[t], "resp")
    IN  IF window = "call" THEN Len(resps) + 1
        ELSE IF resps = <<>> THEN 1
        ELSE 3 - resps[Len(resps)].n
Waits(t) == Len(SelectEvents(trace[t], "sleep"))

----------------------------------------------------------------------------
(* The handlers of _curl_bitmex: what the activation f does with an answer *)

\* A handler ends the activation with a result, or re-enters _curl_bitmex
\* as a tail call (after `sleep` calls of sleep(1)), or calls the lookup.
EndWith(logs, r) == [logs |-> logs, sleep |-> 0, do |-> "end", result |-> r]
Reenter(logs, sleep, f) ==
    [logs |-> logs, sleep |-> sleep, do |-> "reenter", frame |-> f]
Lookup(logs, f) == [logs |-> logs, sleep |-> 0, do |-> "lookup", frame |-> f]

maybe_exit(f, e) ==
    IF f.rethrow_errors THEN Raise("HTTPError", e) ELSE Exit

\* A 401 handler that leaves the decision to maybe_exit.
On401MaybeExit(f, e) ==
    EndWith(<<Log("error", "Login information or API Key incorrect",
                  FALSE, FALSE)>>,
            IF f.rethrow_errors THEN Raise("HTTPError", e) ELSE Exit)

\* A 401 branch without the exit, which falls through to the re-entry
\* written after it.
On401Retry(f, e) ==
    Reenter(<<Log("error", "Login information or API Key incorrect!",
                  FALSE, FALSE)>>,
            0, RetryFrame(f))

On401(f, e) ==
    EndWith(<<Log("error", "Login information or API Key incorrect",
                  FALSE, FALSE),
              Log("error", "Error: response.text", TRUE, FALSE)>>
            \o (IF Truthy(f.postdict)
                THEN <<Log("error", "postdict", FALSE, TRUE)>> ELSE <<>>),
            Exit)

\* A 404 handler without the DELETE case.
On404NoCancel(f, e) ==
    EndWith(<<Log("error", "Unable to contact the BitMEX API (404)",
                  FALSE, TRUE)>>,
            IF f.rethrow_errors THEN Raise("HTTPError", e) ELSE Exit)

On404(f, e) ==
    IF f.verb = "DELETE"
    THEN IF f.postdict = None
         THEN EndWith(<<>>, Raise("TypeError", [key |-> "orderID"]))
         ELSE IF ~HasKey(f.postdict, "orderID")
         THEN EndWith(<<>>, Raise("KeyError", [key |-> "orderID"]))
         ELSE EndWith(<<Log("error", "Order not found", FALSE, FALSE)>>,
                      Return(None))
    ELSE EndWith(<<Log("error", "Unable to contact the BitMEX API (404)",
                       FALSE, TRUE)>>,
                 maybe_exit(f, e))

\* A 429 handler that re-enters without sleeping.
On429NoSleep(f, e) ==
    [logs |-> <<Log("error", "Ratelimited on current request", FALSE, TRUE)>>,
     sleep |-> 0, do |-> "reenter",
     frame |-> CurlFrame(f.api, f.query, f.postdict, f.timeout, f.verb, FALSE)]

On429(f, e) ==
    Reenter(<<Log("error", "Ratelimited on current request", FALSE, TRUE)>>,
            1, RetryFrame(f))

On503(f, e) ==
    Reenter(<<Log("warning", "Unable to contact the BitMEX API (503)",
                  FALSE, TRUE)>>,
            1, RetryFrame(f))

OnDuplicate(f, e) ==
    IF f.postdict = None
    THEN EndWith(<<>>, Raise("TypeError", [key |-> "clOrdID"]))
    ELSE IF ~HasKey(f.postdict, "clOrdID")
    THEN EndWith(<<>>, Raise("KeyError", [key |-> "clOrdID"]))
    ELSE Lookup(<<>>, LookupFrame(f))

\* An unknown-error branch that ends the call without logging.
OnUnknownSilent(f, e) == EndWith(<<>>, maybe_exit(f, e))

OnUnknown(f, e) ==
    EndWith(<<Log("error", "Unhandled Error", TRUE, FALSE),
              Log("error", "Endpoint was", FALSE, TRUE)>>,
            maybe_exit(f, e))

\* A Timeout handler that lets the exception reach the caller.
OnTimeoutRaise(f) ==
    EndWith(<<Log("warning", "Timed out", FALSE, FALSE)>>,
            Raise("Timeout", [message |-> "timed out"]))

OnTimeout(f) ==
    Reenter(<<Log("warning", "Timed out, retrying...", FALSE, FALSE)>>,
            0, RetryFrame(f))

\* A ConnectionError handler that resends at once, as the Timeout one does.
OnConnectionErrorNoSleep(f) ==
    Reenter(<<Log("warning", "Unable to contact the BitMEX API (ConnectionError)",
                  FALSE, TRUE)>>,
            0, RetryFrame(f))

OnConnectionError(f) ==
    Reenter(<<Log("warning", "Unable to contact the BitMEX API (ConnectionError)",
                  FALSE, TRUE)>>,
            1, RetryFrame(f))

\* The if / elif chain of the HTTPError handler, e being [status, body].
\* The body of an error answer is "duplicate" (a JSON error object with the
\* message 'Duplicate clOrdID'), "error" (a JSON error object with another
\* message) or "text" (no JSON, so that response.json() raises).
OnHTTPError(f, e) ==
    IF e.status = 401 THEN On401(f, e)
    ELSE IF e.status = 404 THEN On404(f, e)
    ELSE IF e.status = 429 THEN On429(f, e)
    ELSE IF e.status = 503 THEN On503(f, e)
    ELSE IF e.status = 400 /\ e.body = "text"
        THEN EndWith(<<>>, Raise("ValueError", [message |-> "response.json()"]))
    ELSE IF e.status = 400 /\ e.body = "duplicate" THEN OnDuplicate(f, e)
    ELSE OnUnknown(f, e)

\* The comparison of the fetched order with the submitted postdict p, v
\* being what the lookup returned.
Reconcile(p, v) ==
    IF Len(v.list) = 0 THEN Raise("IndexError", [index |-> 0])
    ELSE
    LET order == v.list[1]
        mismatch == Raise("Exception",
                          [message |-> "did not match POST",
                           post |-> JsonDumps(p),
                           returned |-> JsonDumps(order)])
    IN  IF ~HasKey(p, "quantity") THEN Raise("KeyError", [key |-> "quantity"])
        ELSE IF order.orderQty # p.quantity THEN mismatch
        ELSE IF ~HasKey(p, "price") THEN Raise("KeyError", [key |-> "price"])
        ELSE IF order.price # p.price THEN mismatch
        ELSE IF ~HasKey(p, "symbol") THEN Raise("KeyError", [key |-> "symbol"])
        ELSE IF order.symbol # p.symbol THEN mismatch
        ELSE Return(order)

\* The result r of the innermost activation, passed down through the
\* activations that wait in the duplicate handler, then to the operation o.
RECURSIVE Unwind(_, _, _)
Unwind(o, waiting, r) ==
    IF r.kind # "return" THEN r
    ELSE IF waiting = <<>> THEN Finish(o, r.value)
    ELSE Unwind(o, SubSeq(waiting, 1, Len(waiting) - 1),
                Reconcile(waiting[Len(waiting)].postdict, r.value))

\* `return response.json()` after an answer that raise_for_status accepts.
On200(f, ex) == EndWith(<<>>, Return(Payload(f, ex)))

----------------------------------------------------------------------------
(* Actions *)

\* A caller invokes the operation o; the uuids it draws are sfxs.
Invoke(t, o, sfxs) ==
    /\ Constructed
    /\ t \in threads /\ alive /\ pc[t] = "idle"
    /\ calls < MaxCalls * Cardinality(threads)
    /\ LET b == Body(o, sfxs)
       IN  /\ pc' = [pc EXCEPT ![t] = IF b.go = "call" THEN "ready" ELSE "done"]
           /\ stack' = [stack EXCEPT ![t] =
                            IF b.go = "call" THEN <<b.frame>> ELSE <<>>]
           /\ outcome' = [outcome EXCEPT ![t] =
                            IF b.go = "call" THEN NoOutcome ELSE b.outcome]
    /\ op' = [op EXCEPT ![t] = o]
    /\ trace' = [trace EXCEPT ![t] = <<>>]
    /\ calls' = calls + 1
    /\ UNCHANGED <<config, data, exchange, alive, threads, window>>

\* The top activation of t sends its request, the answer is of the given
\* class, the exchange becomes ex, and the handler decides d.
\* A send is held back while any call of the client sleeps.
CanSendNoneSleeping(t) ==
    /\ t \in threads /\ alive /\ pc[t] = "ready"
    /\ \A u \in threads : pc[u] # "sleeping"

\* The caller t is at session.send: sleep(1) of another caller does not
\* hold it back.
CanSend(t) == t \in threads /\ alive /\ pc[t] = "ready"

\* The thread in which exit(1) ends the process; in any other thread the
\* SystemExit it raises ends that thread only.
MainThread == 1

Respond(t, class, ex, d) ==
    /\ CanSend(t)
    /\ Len(SelectEvents(Kept(t), "send")) < MaxSends
    /\ d.do \in {"reenter", "lookup"} =>
            Len(SelectEvents(Kept(t), "send")) + 1 < MaxSends
    /\ trace' = [trace EXCEPT ![t] =
                    Kept(t) \o <<SendEvt(Top(t), Depth(t)), RespEvt(class, Depth(t), Attempt(t))>>
                      \o d.logs \o [i \in 1..d.sleep |-> SleepEvt]]
    /\ exchange' = ex
    /\ CASE d.do = "end" ->
            LET r == Unwind(op[t], SubSeq(stack[t], 1, Depth(t) - 1), d.result)
            IN  /\ pc' = [pc EXCEPT ![t] = "done"]
                /\ stack' = stack
                /\ outcome' = [outcome EXCEPT ![t] = r]
                /\ alive' = IF r.kind = "exit" /\ t = MainThread
                            THEN FALSE ELSE alive
         [] d.do = "reenter" ->
            /\ pc' = [pc EXCEPT ![t] = IF d.sleep > 0 THEN "sleeping" ELSE "ready"]
            /\ stack' = [stack EXCEPT ![t] = [@ EXCEPT ![Depth(t)] = d.frame]]
            /\ UNCHANGED <<outcome, alive>>
         [] d.do = "lookup" ->
            /\ pc' = [pc EXCEPT ![t] = "ready"]
            /\ stack' = [stack EXCEPT ![t] = Append(@, d.frame)]
            /\ UNCHANGED <<outcome, alive>>
    /\ UNCHANGED <<config, data, threads, window, calls, op>>

Landed(f, landed) == IF landed THEN Land(f, exchange) ELSE exchange

Resp200(t) ==
    /\ pc[t] = "ready" /\ ~IsDuplicate(Top(t), exchange)
    /\ LET ex == Land(Top(t), exchange)
       IN  Respond(t, "200", ex, On200(Top(t), ex))

Resp401(t) ==
    /\ pc[t] = "ready"
    /\ Respond(t, "401", exchange,
               OnHTTPError(Top(t), [status |-> 401, body |-> "error"]))

Resp404(t) ==
    /\ pc[t] = "ready"
    /\ Respond(t, "404", exchange,
               OnHTTPError(Top(t), [status |-> 404, body |-> "error"]))

Resp429(t, landed) ==
    /\ pc[t] = "ready"
    /\ Respond(t, "429", Landed(Top(t), landed),
               OnHTTPError(Top(t), [status |-> 429, body |-> "error"]))

Resp503(t, landed) ==
    /\ pc[t] = "ready"
    /\ Respond(t, "503", Landed(Top(t), landed),
               OnHTTPError(Top(t), [status |-> 503, body |-> "error"]))

\* HTTP 400 with the error message 'Duplicate clOrdID'.
RespDuplicate(t) ==
    /\ pc[t] = "ready" /\ IsDuplicate(Top(t), exchange)
    /\ Respond(t, "duplicate", exchange,
               OnHTTPError(Top(t), [status |-> 400, body |-> "duplicate"]))

\* Any other error status, and 400 with another body ("malformed" when the
\* body of the 400 is not JSON).
RespUnknown(t, e) ==
    /\ pc[t] = "ready"
    /\ Respond(t, IF e.status = 400 /\ e.body = "text" THEN "malformed"
                   ELSE "unknown",
               exchange, OnHTTPError(Top(t), e))

RespTimeout(t, landed) ==
    /\ pc[t] = "ready"
    /\ Respond(t, "Timeout", Landed(Top(t), landed), OnTimeout(Top(t)))

RespConnectionError(t, landed) ==
    /\ pc[t] = "ready"
    /\ Respond(t, "ConnectionError", Landed(Top(t), landed),
               OnConnectionError(Top(t)))

\* sleep(1) returns and the re-entry goes on.
Wake(t) ==
    /\ t \in threads /\ alive /\ pc[t] = "sleeping"
    /\ pc' = [pc EXCEPT ![t] = "ready"]
    /\ UNCHANGED <<config, data, exchange, alive, threads, window, calls, op, stack,
                   trace, outcome>>

\* The caller has its result or its exception and is free to call again.
ReturnToCaller(t) ==
    /\ t \in threads /\ alive /\ pc[t] = "done"
    /\ pc' = [pc EXCEPT ![t] = "idle"]
    /\ op' = [op EXCEPT ![t] = NoOp]
    /\ stack' = [stack EXCEPT ![t] = <<>>]
    /\ trace' = [trace EXCEPT ![t] = <<>>]
    /\ outcome' = [outcome EXCEPT ![t] = NoOutcome]
    /\ UNCHANGED <<config, data, exchange, alive, threads, window, calls>>

UnknownErrors ==
    {[status |-> 400, body |-> "error"], [status |-> 400, body |-> "text"],
     [status |-> 500, body |-> "error"]}

Next ==
    \/ \E t \in Threads, o \in Ops, sfxs \in [1..1 -> Suffixes] :
            Invoke(t, o, sfxs)
    \/ \E t \in Threads : Resp200(t)
    \/ \E t \in Threads : Resp401(t)
    \/ \E t \in Threads : Resp404(t)
    \/ \E t \in Threads, landed \in BOOLEAN : Resp429(t, landed)
    \/ \E t \in Threads, landed \in BOOLEAN : Resp503(t, landed)
    \/ \E t \in Threads : RespDuplicate(t)
    \/ \E t \in Threads, e \in UnknownErrors : RespUnknown(t, e)
    \/ \E t \in Threads, landed \in BOOLEAN : RespTimeout(t, landed)
    \/ \E t \in Threads, landed \in BOOLEAN : RespConnectionError(t, landed)
    \/ \E t \in Threads : Wake(t)
    \/ \E t \in Threads : ReturnToCaller(t)

Spec == Init /\ [][Next]_vars

----------------------------------------------------------------------------
(* The client from its construction on *)

\* A string of n characters.
Pad(n) == [i \in 1..n |-> "p"]

\* The prefixes the constructor is given: short, 13 and 14 characters.
PrefixArgs == Prefixes \cup {Pad(MaxPrefixLen), Pad(MaxPrefixLen + 1)}

InitCtor ==
    /\ apiKey = Empty /\ apiSecret = Empty /\ token = Empty
    /\ orderIDPrefix = <<>>
    /\ symbol = Empty
    /\ ctor = NotConstructed
    /\ data = None
    /\ exchange = {}
    /\ alive = TRUE
    /\ threads = {1}
    /\ window = "call"
    /\ calls = 0
    /\ pc = [t \in Threads |-> "idle"]
    /\ op = [t \in Threads |-> NoOp]
    /\ stack = [t \in Threads |-> <<>>]
    /\ trace = [t \in Threads |-> <<>>]
    /\ outcome = [t \in Threads |-> NoOutcome]

\* The data stores the streaming connection may have filled: an empty one,
\* and one whose orders carry identifiers under the 13-character prefix,
\* under the short prefix and under neither.
DataStoreArgs ==
    {[margin |-> <<>>, position |-> <<>>, order |-> <<>>],
     [margin |-> <<[walletBalance |-> 10]>>,
      position |-> <<[symbol |-> "XBTH17", currentQty |-> 1]>>,
      order |-> <<[clOrdID |-> Pad(MaxPrefixLen) \o <<"1">>, leavesQty |-> 0],
                  [clOrdID |-> <<"o", "r", "d", "e", "r">>, leavesQty |-> 1],
                  [clOrdID |-> Pad(MaxPrefixLen) \o <<"2">>, leavesQty |-> 2],
                  [clOrdID |-> <<"o", "r", "d">>, leavesQty |-> 3],
                  [clOrdID |-> Pad(MaxPrefixLen - 1), leavesQty |-> 4],
                  [clOrdID |-> Pad(MaxPrefixLen), leavesQty |-> 1]>>]}

\* client = SymbolData(...).  Where __init__ ends normally the streaming
\* connection fills the data store.
Construct(c, prefix, overridden) ==
    /\ ~ctor.called
    /\ LET self == SymbolData_init("XBTH17", c.apiKey, c.apiSecret, prefix,
                                   overridden)
       IN  /\ apiKey' = self.apiKey /\ apiSecret' = self.apiSecret
           /\ token' = self.token /\ orderIDPrefix' = self.orderIDPrefix
           /\ symbol' = self.symbol /\ ctor' = self.ctor
           /\ IF self.ctor.raised = Empty
              THEN data' \in DataStoreArgs
              ELSE data' = data
    /\ UNCHANGED <<exchange, alive, threads, window, calls, pc, op, stack, trace,
                   outcome>>

NextCtor ==
    \/ \E c \in Credentials, prefix \in PrefixArgs, overridden \in BOOLEAN :
            Construct(c, prefix, overridden)
    \/ Next

SpecCtor == InitCtor /\ [][NextCtor]_vars

----------------------------------------------------------------------------
(* The calls without a bound on their sends *)

\* Only the last attempt of a call is kept in its trace, so that a call may
\* be answered any number of times.
InitLive ==
    /\ InitClient
    /\ exchange \in {{}, Book(orderIDPrefix)}
    /\ threads = {1} /\ window = "attempt"

\* session.send(..., timeout=timeout) ends: the exchange answers, or the
\* library raises Timeout or ConnectionError.
Answer(t) ==
    \/ Resp200(t) \/ Resp401(t) \/ Resp404(t) \/ RespDuplicate(t)
    \/ \E e \in UnknownErrors : RespUnknown(t, e)
    \/ \E landed \in BOOLEAN :
            \/ Resp429(t, landed) \/ Resp503(t, landed)
            \/ RespTimeout(t, landed) \/ RespConnectionError(t, landed)

----------------------------------------------------------------------------
(* Two callers at once *)

\* The operations the two callers invoke.
ConcOps ==
    {[name |-> "place_order", quantity |-> 1, price |-> 0],
     [name |-> "cancel", orderID |-> "X"]}

InitConc ==
    /\ InitClient
    /\ apiKey # Empty /\ exchange = {} /\ threads = Threads
    /\ window = "attempt"

NextConc ==
    \/ \E t \in Threads, o \in ConcOps, sfxs \in [1..1 -> Suffixes] :
            Invoke(t, o, sfxs)
    \/ \E t \in Threads : Resp200(t)
    \/ \E t \in Threads : Resp401(t)
    \/ \E t \in Threads : Resp404(t)
    \/ \E t \in Threads, landed \in BOOLEAN : Resp429(t, landed)
    \/ \E t \in Threads, landed \in BOOLEAN : Resp503(t, landed)
    \/ \E t \in Threads : RespDuplicate(t)
    \/ \E t \in Threads, e \in UnknownErrors : RespUnknown(t, e)
    \/ \E t \in Threads, landed \in BOOLEAN : RespTimeout(t, landed)
    \/ \E t \in Threads, landed \in BOOLEAN : RespConnectionError(t, landed)
    \/ \E t \in Threads : Wake(t)
    \/ \E t \in Threads : ReturnToCaller(t)

SpecConc == InitConc /\ [][NextConc]_vars

----------------------------------------------------------------------------
\* Every send is answered and every sleep(1) ends.
SpecLive ==
    /\ InitLive /\ [][Next]_vars
    /\ \A t \in Threads : WF_vars(Answer(t)) /\ WF_vars(Wake(t))

----------------------------------------------------------------------------
(* Properties *)

Resps(t) == SelectEvents(trace[t], "resp")
SendEvts(t) == SelectEvents(trace[t], "send")
LastResp(t) == Resps(t)[Len(Resps(t))]
LastSend(t) == SendEvts(t)[Len(SendEvts(t))]
FirstSend(t) == SendEvts(t)[1]

Transient == {"429", "503", "Timeout", "ConnectionError"}

OrderOps == {"buy", "sell", "place_order"}

\* The call of t has ended and its caller has not taken the result yet.
Done(t) == t \in threads /\ pc[t] = "done"

\* The classes of the answers of t's call, the last one left out.
EarlierClasses(t) == {Resps(t)[i].class : i \in 1..(Len(Resps(t)) - 1)}

\* The identifiers carried by the order submissions t's call has sent.
SentIds(t) ==
    {SendEvts(t)[i].req.body.clOrdID :
        i \in {j \in 1..Len(SendEvts(t)) : SendEvts(t)[j].depth = 1}}

\* C1: a place_order call whose sends met Timeout / ConnectionError / 429 /
\* 503 outcomes, landed or not, leaves at most one order on the exchange
\* under the identifiers it submitted, and when it returns it returns that
\* order.
C1_ExactlyOnce ==
    \A t \in threads :
        (op[t].name \in OrderOps /\ Len(SendEvts(t)) > 0) =>
            LET mine == {o \in exchange : o.clOrdID \in SentIds(t)}
            IN  /\ Cardinality(mine) <= 1
                /\ (Done(t) /\ outcome[t].kind = "return") =>
                        /\ mine = {outcome[t].value}
                        /\ outcome[t].value.clOrdID = FirstSend(t).req.body.clOrdID

\* An order call returned its order after two transient outcomes.
C1_Witness ==
    \E t \in threads :
        /\ Done(t) /\ op[t].name \in OrderOps
        /\ outcome[t].kind = "return"
        /\ Len(SendEvts(t)) = 3
        /\ EarlierClasses(t) \subseteq Transient
        /\ outcome[t].value \in exchange

\* C2: every send of an activation of _curl_bitmex carries the Request of
\* its first attempt: endpoint, verb, query, body (with its ClientOrderID)
\* and timeout are those of the first send at the same depth.
C2_IdenticalResend ==
    \A t \in threads :
        \A i, j \in 1..Len(SendEvts(t)) :
            SendEvts(t)[i].depth = SendEvts(t)[j].depth =>
                SendEvts(t)[i].req = SendEvts(t)[j].req

\* An order submission and a call with its own timeout were each resent.
C2_Witness ==
    \E t \in threads :
        /\ Len(SendEvts(t)) = 3
        /\ \A i \in 1..3 : SendEvts(t)[i].depth = 1
        /\ Resps(t)[1].class \in Transient /\ Resps(t)[2].class \in Transient
        /\ \/ HasKey(FirstSend(t).req.body, "clOrdID")
           \/ FirstSend(t).req.timeout # DefaultTimeout

\* The call of t has ended after at least one answer.
Answered(t) == Done(t) /\ Len(Resps(t)) > 0

SubmittedQty(p) == IF HasKey(p, "orderQty") THEN p.orderQty ELSE p.quantity

\* The call of t submitted an order, was answered DuplicateSubmission, and
\* its lookup by ClientOrderID fetched an order.
Reconciling(t) ==
    /\ Answered(t) /\ Depth(t) = 2
    /\ LastResp(t).class = "200" /\ LastResp(t).depth = 2
    /\ \E i \in 1..Len(Resps(t)) : Resps(t)[i].class = "duplicate"
    /\ Len(Payload(Top(t), exchange).list) > 0

Fetched(t) == Payload(Top(t), exchange).list[1]

Matches(p, o) ==
    o.orderQty = SubmittedQty(p) /\ o.price = p.price /\ o.symbol = p.symbol

\* C3: after a DuplicateSubmission answer, when the order fetched by
\* ClientOrderID equals the submission in quantity, price and symbol, the
\* call returns the fetched order.
C3_ReconcileMatch ==
    \A t \in threads :
        (Reconciling(t) /\ Matches(stack[t][1].postdict, Fetched(t))) =>
            outcome[t] = Return(Fetched(t))

\* C4: after a DuplicateSubmission answer, when the fetched order differs
\* from the submission in quantity, price or symbol, the call fails with
\* the mismatch error that carries the submitted and the fetched payload,
\* and returns no order.
C4_ReconcileMismatch ==
    \A t \in threads :
        (Reconciling(t) /\ ~Matches(stack[t][1].postdict, Fetched(t))) =>
            /\ outcome[t].kind = "raise"
            /\ outcome[t].error = "Exception"
            /\ outcome[t].info.post = JsonDumps(stack[t][1].postdict)
            /\ outcome[t].info.returned = JsonDumps(Fetched(t))

\* The caller of the operation o opted into rethrow_errors.
CallerRethrow(o) ==
    \/ o.name = "amend_bulk_orders"
    \/ o.name = "_curl_bitmex" /\ o.rethrow_errors

\* The last answer of t's call is an unknown server error or a 404 to a
\* request that is not a DELETE.
FatalByMode(t) ==
    /\ Answered(t)
    /\ \/ LastResp(t).class = "unknown"
       \/ LastResp(t).class = "404" /\ LastSend(t).req.verb # "DELETE"

\* C5: on UnknownServerError and on 404 to a non-DELETE request the caller's
\* rethrow_errors decides: opted in, the failure is raised and the process
\* lives; not opted in, the process terminates; on whichever attempt.
C5_RethrowDecides ==
    \A t \in threads :
        FatalByMode(t) =>
            IF CallerRethrow(op[t])
            THEN outcome[t].kind = "raise" /\ alive
            ELSE outcome[t].kind = "exit" /\ ~alive

\* C6: a 401 answer is the last thing the call does on the wire: no send and
\* no wait follows it, the process terminates, and the caller gets neither a
\* value nor an exception, whatever rethrow_errors and the attempt.
C6_AuthFailureTerminates ==
    \A t \in threads :
        \A i \in 1..Len(trace[t]) :
            (trace[t][i].e = "resp" /\ trace[t][i].class = "401") =>
                /\ \A j \in (i + 1)..Len(trace[t]) :
                        trace[t][j].e \notin {"send", "sleep"}
                /\ pc[t] = "done"
                /\ outcome[t] = Exit
                /\ ~alive

\* A caller that opted into rethrow_errors got a 401 on a resend.
C6_Witness ==
    \E t \in threads :
        /\ Answered(t) /\ LastResp(t).class = "401"
        /\ Len(SendEvts(t)) >= 2
        /\ CallerRethrow(op[t])
        /\ ~alive

\* C7: a DELETE answered 404 returns None to the caller, raises nothing and
\* leaves the process running, whatever rethrow_errors and the attempt.
C7_CancelNotFound ==
    \A t \in threads :
        (Answered(t) /\ LastResp(t).class = "404"
         /\ LastSend(t).req.verb = "DELETE") =>
            outcome[t] = Return(None) /\ alive

\* A DELETE with rethrow_errors was answered 404 on a resend.
C7_Witness ==
    \E t \in threads :
        /\ Answered(t) /\ LastResp(t).class = "404"
        /\ LastSend(t).req.verb = "DELETE"
        /\ Len(SendEvts(t)) >= 2
        /\ CallerRethrow(op[t])
        /\ outcome[t] = Return(None)

RateLimits == {"429", "503"}

\* The number of waits between the event i of t's trace and the next send.
WaitsAfter(t, i) ==
    LET later == {j \in (i + 1)..Len(trace[t]) : trace[t][j].e = "send"}
        nxt == IF later = {} THEN Len(trace[t]) + 1
               ELSE CHOOSE j \in later : \A k \in later : j <= k
    IN  Cardinality({j \in (i + 1)..(nxt - 1) : trace[t][j].e = "sleep"})

\* C8: each 429 or 503 answer is followed by exactly one wait before the
\* next send, and a call answered n times 429 / 503 and then 200 has made
\* n waits and n + 1 sends and hands the 200 payload to the operation.
C8_BackoffPerRateLimit ==
    \A t \in threads :
        /\ \A i \in 1..Len(trace[t]) :
                (trace[t][i].e = "resp" /\ trace[t][i].class \in RateLimits)
                    => WaitsAfter(t, i) = 1
        /\ (Answered(t) /\ Depth(t) = 1 /\ LastResp(t).class = "200"
            /\ EarlierClasses(t) \subseteq RateLimits) =>
                /\ Waits(t) = Len(Resps(t)) - 1
                /\ Sends(t) = Len(Resps(t))
                /\ outcome[t] = Finish(op[t], Payload(Top(t), exchange))

\* A call was answered 429 and 503 and then 200.
C8_Witness ==
    \E t \in threads :
        /\ Answered(t) /\ Depth(t) = 1 /\ LastResp(t).class = "200"
        /\ EarlierClasses(t) = RateLimits
        /\ Len(Resps(t)) = 3
        /\ Waits(t) = 2

\* C9: no call ends on a 429, 503, Timeout or ConnectionError outcome: each
\* of them is followed by a send of the same Request by the same activation,
\* or that send is still to come and the caller has seen nothing.
C9_TransientNeverSurfaces ==
    \A t \in threads :
        /\ (outcome[t].kind # "none" /\ Len(Resps(t)) > 0) =>
                LastResp(t).class \notin Transient
        /\ \A i \in 1..Len(Resps(t)) :
                Resps(t)[i].class \in Transient =>
                    IF i < Len(SendEvts(t))
                    THEN /\ SendEvts(t)[i + 1].req = SendEvts(t)[i].req
                         /\ SendEvts(t)[i + 1].depth = SendEvts(t)[i].depth
                    ELSE pc[t] \in {"ready", "sleeping"}
                         /\ outcome[t].kind = "none"

\* A call returned a value after a Timeout and a ConnectionError.
C9_Witness ==
    \E t \in threads :
        /\ Answered(t)
        /\ EarlierClasses(t) = {"Timeout", "ConnectionError"}
        /\ outcome[t].kind = "return"

NoCredentials == apiKey = Empty /\ apiSecret = Empty /\ token = Empty

\* C10: without credentials every operation that requires authentication
\* ends with AuthenticationError before a request is built or sent.
C10_AuthenticationRequired ==
    \A t \in threads :
        (NoCredentials /\ op[t].name \in AuthOps) =>
            /\ pc[t] = "done"
            /\ outcome[t].kind = "raise"
            /\ outcome[t].error = "AuthenticationError"
            /\ stack[t] = <<>>
            /\ trace[t] = <<>>

\* An order placement with a valid price was refused for lack of credentials.
C10_Witness ==
    \E t \in threads :
        /\ NoCredentials /\ Done(t)
        /\ op[t].name = "place_order" /\ op[t].price >= 0
        /\ outcome[t].kind = "raise"

\* C11: a constructor call with an orderIDPrefix of more than 13 characters
\* raises ValueError before the HTTP session is prepared and before the
\* streaming connection is opened, and nothing is ever sent; a prefix of at
\* most 13 characters passes the check and becomes the client's prefix.
C11_PrefixCheckedFirst ==
    ctor.called =>
        /\ Len(ctor.prefix) > 13 =>
                /\ ctor.raised = "ValueError"
                /\ \A i \in 1..Len(ctor.steps) :
                        ctor.steps[i] \notin {"session", "headers",
                                              "connect_websocket"}
                /\ \A t \in Threads : trace[t] = <<>> /\ pc[t] = "idle"
        /\ Len(ctor.prefix) <= 13 =>
                /\ ctor.raised # "ValueError"
                /\ orderIDPrefix = ctor.prefix
                /\ \E i \in 1..Len(ctor.steps) : ctor.steps[i] = "session"

\* The constructor refused a prefix of 14 characters.
C11_Witness ==
    /\ ctor.called /\ Len(ctor.prefix) = 14
    /\ ctor.raised = "ValueError"

\* The positions of the data store's orders that are open orders of this
\* client: identifier under the prefix and a positive remaining quantity.
OwnOpen ==
    {i \in 1..Len(data.order) :
        /\ StartsWith(data.order[i].clOrdID, orderIDPrefix)
        /\ data.order[i].leavesQty > 0}

\* C12: open_orders returns exactly the orders of the data store whose
\* clOrdID starts with the prefix and whose leavesQty is positive, in the
\* order of the store, and no step after the construction changes the store.
C12_OpenOrdersFilter ==
    /\ [](\A t \in threads :
            (Done(t) /\ op[t].name = "open_orders" /\ ~NoCredentials) =>
                /\ outcome[t].kind = "return"
                /\ LET got == outcome[t].value.list
                   IN  /\ Len(got) = Cardinality(OwnOpen)
                       /\ \A i \in 1..Len(got) :
                            \E j \in OwnOpen : got[i] = data.order[j]
                       /\ \A j \in OwnOpen :
                            \E i \in 1..Len(got) : got[i] = data.order[j]
                       /\ \A i, k \in 1..Len(got) :
                            i < k => \E j, l \in OwnOpen :
                                        /\ j < l
                                        /\ got[i] = data.order[j]
                                        /\ got[k] = data.order[l])
    /\ [][ctor.called => data' = data]_vars

\* open_orders returned some orders of the store and left out one that
\* carries the prefix but has nothing left to fill.
C12_Witness ==
    \E t \in threads :
        /\ Done(t) /\ op[t].name = "open_orders"
        /\ outcome[t].kind = "return"
        /\ Len(outcome[t].value.list) > 0
        /\ \E j \in 1..Len(data.order) :
                /\ StartsWith(data.order[j].clOrdID, orderIDPrefix)
                /\ data.order[j].leavesQty = 0

\* The signed quantity an order operation is to submit.
SignedQty(o) == IF o.name = "sell" THEN 0 - o.quantity ELSE o.quantity

\* C13: with credentials, buy / sell / place_order at a negative price end
\* with an exception and nothing is sent; at a price of zero or more a
\* request is made, and every submission carries the quantity as given by
\* buy and place_order and negated by sell, the price, and a clOrdID that
\* the call generated under the client's prefix.
C13_PlaceOrder ==
    \A t \in threads :
        (op[t].name \in OrderOps /\ ~NoCredentials) =>
            IF op[t].price < 0
            THEN /\ pc[t] = "done"
                 /\ outcome[t].kind = "raise"
                 /\ outcome[t].error = "Exception"
                 /\ trace[t] = <<>>
                 /\ stack[t] = <<>>
            ELSE /\ Len(stack[t]) >= 1
                 /\ stack[t][1].verb = "POST"
                 /\ stack[t][1].postdict.orderQty = SignedQty(op[t])
                 /\ \A i \in 1..Len(SendEvts(t)) :
                        SendEvts(t)[i].depth = 1 =>
                            LET body == SendEvts(t)[i].req.body
                            IN  /\ body.orderQty = SignedQty(op[t])
                                /\ body.price = op[t].price
                                /\ StartsWith(body.clOrdID, orderIDPrefix)
                                /\ \E sfx \in Suffixes :
                                        body.clOrdID = orderIDPrefix \o sfx

\* A sell at price zero was submitted with a negative quantity and the
\* exchange booked it.
C13_Witness ==
    \E t \in threads :
        /\ Done(t) /\ op[t].name = "sell" /\ op[t].price = 0
        /\ outcome[t].kind = "return"
        /\ FirstSend(t).req.body.orderQty < 0
        /\ Len(orderIDPrefix) = 13

\* The answer at position i of t's trace is followed by one send of the
\* Request it answered, by the same activation, or that send is the next
\* thing the call does.
ResentSame(t, i) ==
    LET sent == trace[t][i - 1]
        later == {j \in (i + 1)..Len(trace[t]) : trace[t][j].e = "send"}
    IN  IF later = {}
        THEN /\ pc[t] \in {"ready", "sleeping"}
             /\ Depth(t) = sent.depth
             /\ Request(Top(t)) = sent.req
        ELSE LET nxt == CHOOSE j \in later : \A k \in later : j <= k
             IN  /\ trace[t][nxt].req = sent.req
                 /\ trace[t][nxt].depth = sent.depth

\* The answers of t's call that are followed by a wait.
Backoffs(t) ==
    {i \in 1..Len(trace[t]) :
        /\ trace[t][i].e = "resp"
        /\ trace[t][i].class \in {"429", "503", "ConnectionError"}}

\* C14: a Timeout is followed by a resend of the same Request with no wait
\* in between, a ConnectionError by exactly one wait and a resend of the
\* same Request; the waits of a call number its 429, 503 and
\* ConnectionError answers, Timeouts adding none.
C14_TimeoutNoBackoff ==
    \A t \in threads :
        /\ \A i \in 1..Len(trace[t]) :
                /\ (trace[t][i].e = "resp" /\ trace[t][i].class = "Timeout")
                        => (WaitsAfter(t, i) = 0 /\ ResentSame(t, i))
                /\ (trace[t][i].e = "resp"
                    /\ trace[t][i].class = "ConnectionError")
                        => (WaitsAfter(t, i) = 1 /\ ResentSame(t, i))
        /\ Waits(t) = Cardinality(Backoffs(t))

\* A call met a Timeout, then a ConnectionError, waited once and was
\* answered on its third send.
C14_Witness ==
    \E t \in threads :
        /\ Answered(t) /\ Len(Resps(t)) = 3
        /\ Resps(t)[1].class = "Timeout"
        /\ Resps(t)[2].class = "ConnectionError"
        /\ Waits(t) = 1

\* The positions of the DuplicateSubmission answers in t's trace.
Duplicates(t) ==
    {i \in 1..Len(trace[t]) :
        trace[t][i].e = "resp" /\ trace[t][i].class = "duplicate"}

\* C15: after a DuplicateSubmission answer the submission is not sent
\* again and one lookup is under way or has run: a GET of '/order' whose
\* filter is the clOrdID of the refused submission; and a lookup runs only
\* after a DuplicateSubmission answer.
C15_LookupOnlyOnDuplicate ==
    \A t \in threads :
        /\ \A i \in Duplicates(t) :
                /\ \A j \in (i + 1)..Len(trace[t]) :
                        trace[t][j].e = "send" => trace[t][j].depth = 2
                /\ Depth(t) = 2
                /\ Top(t).api = "/order" /\ Top(t).verb = "GET"
                /\ Top(t).query =
                        [filter |-> JsonDumps(
                            [clOrdID |-> trace[t][i - 1].req.body.clOrdID])]
        /\ Depth(t) <= 2
        /\ Depth(t) = 2 => Duplicates(t) # {}
        /\ \A j \in 1..Len(trace[t]) :
                (trace[t][j].e = "send" /\ trace[t][j].depth = 2) =>
                    \E i \in Duplicates(t) : i < j

\* The call of t met a DuplicateSubmission answer and has ended on it or on
\* the 200 answer of its lookup.
DuplicateSettled(t) ==
    /\ Answered(t) /\ Duplicates(t) # {}
    /\ LastResp(t).class \in {"duplicate", "200"}

\* C16: a call that met a DuplicateSubmission answer ends Reconciled, the
\* order fetched for the identifier being returned, or DataIntegrity, the
\* mismatch exception being raised; this for order placement, for bulk
\* creation and when the lookup returns an empty list.
C16_DuplicateOutcomes ==
    \A t \in threads :
        DuplicateSettled(t) =>
            \/ /\ Depth(t) = 2
               /\ Len(Payload(Top(t), exchange).list) > 0
               /\ outcome[t] = Return(Fetched(t))
            \/ /\ outcome[t].kind = "raise"
               /\ outcome[t].error = "Exception"
               /\ "returned" \in DOMAIN outcome[t].info

\* The call of t is answered with a 429, 503, Timeout or ConnectionError.
TransientAnswer(t) ==
    \E landed \in BOOLEAN :
        \/ Resp429(t, landed) \/ Resp503(t, landed)
        \/ RespTimeout(t, landed) \/ RespConnectionError(t, landed)

\* The call of t is in _curl_bitmex: about to send, or in sleep(1).
InCall(t) == pc[t] \in {"ready", "sleeping"}

\* C17: where every send is answered and every sleep ends, a call whose
\* answers are not transient ones for ever comes to its end: it returns,
\* raises, or ends the process.  A call that never ends is answered with
\* transient outcomes again and again.
C17_Termination ==
    \A t \in Threads :
        (<>[][~TransientAnswer(t)]_vars) =>
            (InCall(t) ~> (pc[t] = "done" /\ outcome[t].kind # "none"))

\* A call is about to resend after a transient answer to a resend.
C17_Witness ==
    \E t \in threads :
        /\ window = "attempt" /\ InCall(t)
        /\ Len(Resps(t)) = 1
        /\ Resps(t)[1].n = 2
        /\ Resps(t)[1].class \in Transient
        /\ Request(Top(t)) = SendEvts(t)[1].req

\* The call of t is an http_open_orders call that returned a list.
HttpOpenOrdersReturned(t) ==
    /\ Answered(t) /\ op[t].name = "http_open_orders"
    /\ outcome[t].kind = "return"

\* C18 as stated: every order that http_open_orders returns carries the
\* prefix and has a positive leavesQty.
C18_HttpOpenOrdersFilter ==
    \A t \in threads :
        HttpOpenOrdersReturned(t) =>
            \A i \in 1..Len(outcome[t].value.list) :
                /\ StartsWith(outcome[t].value.list[i].clOrdID, orderIDPrefix)
                /\ outcome[t].value.list[i].leavesQty > 0

\* The positions of the fetched orders whose identifier carries the prefix.
OwnFetched(t) ==
    {j \in 1..Len(Payload(Top(t), exchange).list) :
        StartsWith(Payload(Top(t), exchange).list[j].clOrdID, orderIDPrefix)}

\* C18, amended: http_open_orders asks the exchange for the orders of its
\* symbol that are not terminated and returns exactly those of the fetched
\* orders whose clOrdID starts with the prefix, whatever their leavesQty.
C18_HttpOpenOrdersByPrefix ==
    \A t \in threads :
        HttpOpenOrdersReturned(t) =>
            LET got == outcome[t].value.list
                fetched == Payload(Top(t), exchange).list
            IN  /\ LastSend(t).req.verb = "GET"
                /\ LastSend(t).req.query.filter.json["ordStatus.isTerminated"]
                        = FALSE
                /\ LastSend(t).req.query.filter.json["symbol"] = symbol
                /\ Len(got) = Cardinality(OwnFetched(t))
                /\ \A i \in 1..Len(got) :
                        \E j \in OwnFetched(t) : got[i] = fetched[j]
                /\ \A j \in OwnFetched(t) :
                        \E i \in 1..Len(got) : got[i] = fetched[j]

\* http_open_orders returned an order with nothing left to fill and left
\* out an order of another session.
C18_Witness ==
    \E t \in threads :
        /\ HttpOpenOrdersReturned(t)
        /\ \E i \in 1..Len(outcome[t].value.list) :
                outcome[t].value.list[i].leavesQty = 0
        /\ Len(outcome[t].value.list) < Len(Payload(Top(t), exchange).list)

\* The log entries written after the last answer of t's call.
LastLogs(t) ==
    LET resps == {i \in 1..Len(trace[t]) : trace[t][i].e = "resp"}
        last == CHOOSE i \in resps : \A j \in resps : j <= i
    IN  {trace[t][i] : i \in {j \in (last + 1)..Len(trace[t]) :
                                    trace[t][j].e = "log"}}

\* The call of t ended by raising the mismatch exception of the duplicate
\* handler.
Mismatched(t) ==
    /\ Answered(t) /\ outcome[t].kind = "raise"
    /\ outcome[t].error = "Exception"
    /\ "returned" \in DOMAIN outcome[t].info

\* The call of t ended on a fatal path: 401, 404 to a request that is not
\* a DELETE, an unknown server error, or the mismatch of the reconciliation.
Fatal(t) ==
    /\ Answered(t)
    /\ \/ LastResp(t).class \in {"401", "unknown"}
       \/ LastResp(t).class = "404" /\ LastSend(t).req.verb # "DELETE"
       \/ Mismatched(t)

Locals(t) == <<pc[t], op[t], stack[t], trace[t], outcome[t]>>

\* The send of u is answered and the answer ends u's call.
EndsNow(u) == Answer(u) /\ pc'[u] = "done" /\ outcome'[u].kind # "none"

\* A step of one caller leaves what belongs to the other as it is, and no
\* step writes the credentials or the prefix.
StepIsLocal ==
    /\ \A t, u \in Threads :
            (t # u /\ Locals(t)' # Locals(t)) => Locals(u)' = Locals(u)
    /\ apiKey' = apiKey /\ apiSecret' = apiSecret /\ token' = token
    /\ orderIDPrefix' = orderIDPrefix

\* C20: with two callers on one client, while one call is in its backoff
\* wait or about to resend, the other, once at its send, can be answered
\* and end; a step of one call changes neither the Request nor the outcome
\* nor anything else of the other call; and no step changes the
\* credentials or the order-ID prefix.
C20_Independent ==
    /\ [](\A t, u \in threads :
            (t # u /\ alive /\ InCall(t) /\ pc[u] = "ready") =>
                ENABLED EndsNow(u))
    /\ [][StepIsLocal]_vars

\* One call sleeps in its backoff after a 429 while the other call, an
\* order placement under another identifier, has returned its order.
C20_Witness ==
    \E t, u \in threads :
        /\ t # u /\ pc[t] = "sleeping" /\ LastResp(t).class = "429"
        /\ Done(u) /\ outcome[u].kind = "return"
        /\ op[t].name = "place_order" /\ op[u].name = "place_order"
        /\ stack[t][1].postdict.clOrdID # stack[u][1].postdict.clOrdID

====
